---------------------------- MODULE Spec2Model ----------------------------
(***************************************************************************)
(* Model of the meteo crate (src/src/lib.rs): the logos tokenizer, the     *)
(* header parser Metadata::parse, the day-record parser Day::parse, the    *)
(* report assembler <Report as FromStr>::from_str and Report::merge.       *)
(*                                                                         *)
(* Texts and lines are TLA+ strings; a character is a string of length 1.  *)
(* A Rust panic (unwrap on None/Err, assert!) is the outcome "Panic".      *)
(***************************************************************************)
EXTENDS Integers, Sequences, FiniteSets, TLC

VARIABLES
    text,       \* from_str: the argument s
    lines,      \* from_str: the items of s.lines()
    pos,        \* from_str: number of items already taken from the iterator
    pc,         \* from_str: "start", "skip" (first loop), "days" (second loop), "done"
    metadata,   \* from_str: the local `metadata`
    days,       \* from_str: the local `days`
    outcome,    \* from_str: what the call ended with
    fed,        \* from_str: indices (into lines) of the lines handed to Day::parse
    stderr,     \* from_str: the lines written by eprintln!
    call,       \* direct call of Day::parse or Metadata::parse: its arguments
    ret,        \* direct call of Day::parse or Metadata::parse: its result
    report,     \* merge: the receiver `self`
    before,     \* merge: the receiver as it was when the last call began
    arg,        \* merge: the argument `other` of the last call
    mergeResult,\* merge: the value the last call returned
    history,    \* merge: metadata.date of the receiver at first and of every report merged into it
    calls       \* merge: number of calls made on the receiver

parseVars == <<text, lines, pos, pc, metadata, days, outcome, fed, stderr>>
callVars == <<call, ret>>
mergeVars == <<report, before, arg, mergeResult, history, calls>>
vars == <<text, lines, pos, pc, metadata, days, outcome, fed, stderr,
          call, ret, report, before, arg, mergeResult, history, calls>>

----------------------------------------------------------------------------
(* Bounds of the model *)

MaxDataLines == 2     \* data lines between the two separators of a generated text
MaxMerges == 2        \* merge calls on one receiver
MaxDays == 1          \* days held by a report handed to merge

----------------------------------------------------------------------------
(* Characters *)

Digits == {"0", "1", "2", "3", "4", "5", "6", "7", "8", "9"}

Upper == {"A", "B", "C", "D", "E", "F", "G", "H", "I", "J", "K", "L", "M",
          "N", "O", "P", "Q", "R", "S", "T", "U", "V", "W", "X", "Y", "Z"}

Lower == {"a", "b", "c", "d", "e", "f", "g", "h", "i", "j", "k", "l", "m",
          "n", "o", "p", "q", "r", "s", "t", "u", "v", "w", "x", "y", "z"}

Letters == Upper \cup Lower

Blank == {" ", "\t"}

CharAt(s, i) == IF i >= 1 /\ i <= Len(s) THEN SubSeq(s, i, i) ELSE ""

\* first index j >= i whose character is not in set (Len(s) + 1 when none)
RECURSIVE RunEnd(_, _, _)
RunEnd(s, i, set) ==
    IF i <= Len(s) /\ CharAt(s, i) \in set THEN RunEnd(s, i + 1, set) ELSE i

----------------------------------------------------------------------------
(* Tokenizer: #[derive(Logos)] enum Token.  At each position logos takes   *)
(* the longest match; on a tie a #[token] literal (or the prioritised      *)
(* FE(B|V)) wins over the [a-zA-Z]+ regex.  Whitespace [ \t]+ is skipped.  *)

Literals ==
    << [kind |-> "MonthlyClimatologicalSummary", lit |-> "MONTHLY CLIMATOLOGICAL SUMMARY for "],
       [kind |-> "January",     lit |-> "JAN"],
       [kind |-> "February",    lit |-> "FEB"],
       [kind |-> "February",    lit |-> "FEV"],
       [kind |-> "March",       lit |-> "MAR"],
       [kind |-> "April",       lit |-> "APR"],
       [kind |-> "May",         lit |-> "MAY"],
       [kind |-> "June",        lit |-> "JUN"],
       [kind |-> "July",        lit |-> "JUL"],
       [kind |-> "August",      lit |-> "AUG"],
       [kind |-> "September",   lit |-> "SEP"],
       [kind |-> "October",     lit |-> "OCT"],
       [kind |-> "November",    lit |-> "NOV"],
       [kind |-> "December",    lit |-> "DEC"],
       [kind |-> "Name",        lit |-> "NAME:"],
       [kind |-> "City",        lit |-> "CITY:"],
       [kind |-> "State",       lit |-> "STATE:"],
       [kind |-> "Elevation",   lit |-> "ELEV:"],
       [kind |-> "Latitude",    lit |-> "LAT:"],
       [kind |-> "Longitude",   lit |-> "LONG:"],
       [kind |-> "Crlf",        lit |-> "\n"],
       [kind |-> "MissingData", lit |-> "---"],
       [kind |-> "Colon",       lit |-> ":"],
       [kind |-> "Dot",         lit |-> "."] >>

\* length of the match of a literal at position i (0: no match)
LitLen(s, i, lit) ==
    IF i + Len(lit) - 1 <= Len(s) /\ SubSeq(s, i, i + Len(lit) - 1) = lit
    THEN Len(lit) ELSE 0

\* length of the match of -?[0-9]+(\.[0-9]+)? at position i (0: no match),
\* p being the position after the optional sign and e the end of the digits
NumberEnd(s, e) ==
    IF CharAt(s, e) = "." /\ CharAt(s, e + 1) \in Digits
    THEN RunEnd(s, e + 1, Digits) ELSE e

NumberFrom(s, i, p, e) == IF e = p THEN 0 ELSE NumberEnd(s, e) - i

NumberAfterSign(s, i, p) == NumberFrom(s, i, p, RunEnd(s, p, Digits))

NumberLen(s, i) == NumberAfterSign(s, i, IF CharAt(s, i) = "-" THEN i + 1 ELSE i)

\* length of the match of [a-zA-Z]+ at position i (0: no match)
WordLen(s, i) == RunEnd(s, i, Letters) - i

\* the longer of a literal match <<n, kind>> and the best of the later literals
Longer(n, kind, rest) == IF n > rest[1] THEN <<n, kind>> ELSE rest

\* the longest literal match at position i, as <<length, kind>>
RECURSIVE BestLiteral(_, _, _)
BestLiteral(s, i, k) ==
    IF k > Len(Literals) THEN <<0, "Error">>
    ELSE Longer(LitLen(s, i, Literals[k].lit), Literals[k].kind, BestLiteral(s, i, k + 1))

Token(kind, s, i, n) == [kind |-> kind, slice |-> SubSeq(s, i, i + n - 1)]

\* longest match; a literal wins a tie
Pick(s, i, lit, num, word) ==
    IF lit[1] = 0 /\ num = 0 /\ word = 0 THEN Token("Error", s, i, 1)
    ELSE IF lit[1] >= num /\ lit[1] >= word THEN Token(lit[2], s, i, lit[1])
    ELSE IF num >= word THEN Token("Number", s, i, num)
    ELSE Token("String", s, i, word)

\* the token at position i (i is not whitespace and i <= Len(s))
TokenAt(s, i) == Pick(s, i, BestLiteral(s, i, 1), NumberLen(s, i), WordLen(s, i))

\* Token::lexer(s) drained from position i; every consumer returns at the
\* first Err item, so the sequence is cut after it
RECURSIVE LexFrom(_, _)
LexCons(s, j, t) ==
    IF t.kind = "Error" THEN <<t>> ELSE <<t>> \o LexFrom(s, j + Len(t.slice))

LexAt(s, j) == IF j > Len(s) THEN << >> ELSE LexCons(s, j, TokenAt(s, j))

LexFrom(s, i) == LexAt(s, RunEnd(s, i, Blank))

Lexer(s) == LexFrom(s, 1)

\* lexer.next(): the n-th item, None past the end
NoToken == [kind |-> "None", slice |-> ""]

Nth(toks, n) == IF n <= Len(toks) THEN toks[n] ELSE NoToken


----------------------------------------------------------------------------
(* Results.  Ok carries a value, Err an error variant, Panic is an unwind. *)

Ok(v) == [tag |-> "Ok", val |-> v]

Err(e, m) == [tag |-> "Err", err |-> e, msg |-> m]

Panic == [tag |-> "Panic"]

\* the call has not returned yet
Running == [tag |-> "Running"]

None == [some |-> FALSE]

Some(v) == [some |-> TRUE, val |-> v]

----------------------------------------------------------------------------
(* str::parse of a Number slice *)

DigitVal(c) == CHOOSE n \in 0..9 : SubSeq("0123456789", n + 1, n + 1) = c

\* value of the decimal digits s[i..j] read after the value acc; -1 once the
\* value exceeds 2147483647 (the largest integer TLC holds, and i32::MAX)
RECURSIVE DigitsVal(_, _, _, _)
DigitsVal(s, i, j, acc) ==
    IF i > j THEN acc
    ELSE LET d == DigitVal(CharAt(s, i))
         IN  IF acc > 214748364 \/ (acc = 214748364 /\ d > 7) THEN 0 - 1
             ELSE DigitsVal(s, i + 1, j, acc * 10 + d)

AllDigits(s) == Len(s) > 0 /\ RunEnd(s, 1, Digits) = Len(s) + 1

\* <u8 as FromStr>: digits only, at most 255
U8Of(s, v) == IF v >= 0 /\ v <= 255 THEN Ok(v) ELSE Err("ParseIntError", s)

ParseU8(s) ==
    IF AllDigits(s) THEN U8Of(s, DigitsVal(s, 1, Len(s), 0)) ELSE Err("ParseIntError", s)

\* <i32 as FromStr>: optional minus sign, digits only, within 32 bits
\* (i32::MIN itself is read as out of range; its only caller rejects any
\* year below -9999 in the same way)
I32Of(s, neg, v) ==
    IF v >= 0 THEN Ok(IF neg THEN 0 - v ELSE v) ELSE Err("ParseIntError", s)

I32Body(s, neg, body) ==
    IF AllDigits(body) THEN I32Of(s, neg, DigitsVal(body, 1, Len(body), 0))
    ELSE Err("ParseIntError", s)

ParseI32(s) ==
    IF CharAt(s, 1) = "-" THEN I32Body(s, TRUE, SubSeq(s, 2, Len(s)))
    ELSE I32Body(s, FALSE, s)

\* <f32 as FromStr> never fails on a Number slice.  The value is kept as a
\* count of thousandths: fraction digits past the third are dropped and a
\* whole part above a million is kept as a million.
F32Scale(n) == IF n <= 0 THEN 1000 ELSE IF n = 1 THEN 100 ELSE IF n = 2 THEN 10 ELSE 1

F32Clamp(w) == IF w < 0 \/ w > 1000000 THEN 1000000 ELSE w

\* e: end of the whole part, fracEnd: last fraction digit kept
F32Value(s, p, e, fracEnd) ==
    F32Clamp(DigitsVal(s, p, e - 1, 0)) * 1000
        + DigitsVal(s, e + 1, fracEnd, 0) * F32Scale(fracEnd - e)

F32Magnitude(s, p, e) == F32Value(s, p, e, IF Len(s) < e + 3 THEN Len(s) ELSE e + 3)

ParseF32(s) ==
    IF CharAt(s, 1) = "-" THEN 0 - F32Magnitude(s, 2, RunEnd(s, 2, Digits))
    ELSE F32Magnitude(s, 1, RunEnd(s, 1, Digits))

----------------------------------------------------------------------------
(* time::Date *)

Date(y, m, d) == [year |-> y, month |-> m, day |-> d]

IsLeapYear(y) == y % 4 = 0 /\ (y % 100 # 0 \/ y % 400 = 0)

DaysInMonth(y, m) ==
    IF m \in {4, 6, 9, 11} THEN 30
    ELSE IF m = 2 THEN (IF IsLeapYear(y) THEN 29 ELSE 28)
    ELSE 31

\* Date::from_calendar_date
FromCalendarDate(y, m, d) ==
    IF y < 0 - 9999 \/ y > 9999 THEN Err("ComponentRange", "year")
    ELSE IF d < 1 \/ d > DaysInMonth(y, m) THEN Err("ComponentRange", "day")
    ELSE Ok(Date(y, m, d))

\* Date::replace_day
ReplaceDay(date, d) ==
    IF d = 0 \/ d > DaysInMonth(date.year, date.month)
    THEN Err("ComponentRange", "day")
    ELSE Ok(Date(date.year, date.month, d))

\* Date::with_hms(hour, minute, 0)
WithHms(date, h, mi) ==
    IF h > 23 THEN Err("ComponentRange", "hour must be in the range 0..=23")
    ELSE IF mi > 59 THEN Err("ComponentRange", "minute must be in the range 0..=59")
    ELSE Ok([date |-> date, hour |-> h, minute |-> mi, second |-> 0])

\* Ord for Date
DateLess(a, b) ==
    \/ a.year < b.year
    \/ a.year = b.year /\ a.month < b.month
    \/ a.year = b.year /\ a.month = b.month /\ a.day < b.day

----------------------------------------------------------------------------
(* enum Direction and its FromStr *)

Directions == {"N", "NNE", "NE", "ENE", "E", "ESE", "SE", "SSE",
               "S", "SSW", "SW", "WSW", "W", "WNW", "NW", "NNW"}

DirectionFromStr(s) ==
    IF s \in Directions THEN Ok(s) ELSE Err("String", "Unknown wind direction")

----------------------------------------------------------------------------
(* Day::parse.  The match statements of the function are taken in source   *)
(* order; each operator below hands the values read so far to the next.    *)

BadThing(m) == Err("BadThing", m)

\* date.with_hms(hour, minute, 0).map_err(BadThing)
TimeOf(at) == IF at.tag # "Ok" THEN BadThing(at.msg) ELSE at

TimeMinute(date, hour, minute) ==
    IF minute.tag # "Ok" THEN Panic ELSE TimeOf(WithHms(date, hour.val, minute.val))

TimeHour(date, toks, n, what, hour) ==
    IF hour.tag # "Ok" THEN Panic
    ELSE IF Nth(toks, n + 1).kind # "Colon" THEN BadThing(what \o " colon")
    ELSE IF Nth(toks, n + 2).kind # "Number" THEN BadThing(what \o " minute")
    ELSE TimeMinute(date, hour, ParseU8(Nth(toks, n + 2).slice))

\* `hour : minute` read at items n, n+1, n+2 once item n is known to be a
\* Number: u8 parse of the hour, the colon, the minute and its u8 parse,
\* then with_hms
TimeAt(date, toks, n, what) == TimeHour(date, toks, n, what, ParseU8(Nth(toks, n).slice))

\* the struct literal of lines 453-465
MkDay(date, toks, high, low, hwsd, dir) ==
    [date |-> date,
     mean_temp |-> ParseF32(Nth(toks, 2).slice),
     high_temp |-> ParseF32(Nth(toks, 3).slice),
     high_temp_date |-> high,
     low_temp |-> ParseF32(Nth(toks, 7).slice),
     low_temp_date |-> low,
     rain |-> ParseF32(Nth(toks, 13).slice),
     avg_wind_speed |-> ParseF32(Nth(toks, 14).slice),
     high_wind_speed |-> ParseF32(Nth(toks, 15).slice),
     high_wind_speed_date |-> hwsd,
     wind_direction |-> dir]

\* lines 447-451, t being the item after high_wind_speed_date;
\* day.slice().parse().unwrap() panics on the Err of Direction::from_str
WindString(date, toks, high, low, hwsd, dir) ==
    IF dir.tag # "Ok" THEN Panic
    ELSE Ok(MkDay(date, toks, high, low, hwsd, Some(dir.val)))

WindDirection(date, toks, high, low, hwsd, t) ==
    IF t.kind = "String"
    THEN WindString(date, toks, high, low, hwsd, DirectionFromStr(t.slice))
    ELSE IF t.kind = "MissingData" THEN Ok(MkDay(date, toks, high, low, hwsd, None))
    ELSE BadThing("Wind direction")

\* lines 415-445
WindTime(date, toks, high, low, at) ==
    IF at.tag # "Ok" THEN at
    ELSE WindDirection(date, toks, high, low, Some(at.val), Nth(toks, 19))

HighWindSpeedDate(date, toks, high, low) ==
    IF Nth(toks, 16).kind = "Number"
    THEN WindTime(date, toks, high, low, TimeAt(date, toks, 16, "Bad high wind speed"))
    ELSE IF Nth(toks, 16).kind = "MissingData"
    THEN WindDirection(date, toks, high, low, None, Nth(toks, 17))
    ELSE BadThing("Bad high wind speed hour")

\* lines 385-412
AfterLow(date, toks, high, low) ==
    IF low.tag # "Ok" THEN low
    ELSE IF Nth(toks, 11).kind # "Number" THEN BadThing("heat truc")
    ELSE IF Nth(toks, 12).kind # "Number" THEN BadThing("heat truc")
    ELSE IF Nth(toks, 13).kind # "Number" THEN BadThing("Bad rain")
    ELSE IF Nth(toks, 14).kind # "Number" THEN BadThing("Bad avg wind speed")
    ELSE IF Nth(toks, 15).kind # "Number" THEN BadThing("Bad high wind speed")
    ELSE HighWindSpeedDate(date, toks, high.val, low.val)

\* lines 364-384
AfterHigh(date, toks, high) ==
    IF high.tag # "Ok" THEN high
    ELSE IF Nth(toks, 7).kind # "Number" THEN BadThing("Bad low temp")
    ELSE IF Nth(toks, 8).kind # "Number" THEN BadThing("Bad low temp hour")
    ELSE AfterLow(date, toks, high, TimeAt(date, toks, 8, "Bad low temp"))

\* AfterDate with the empty-day test made before the calendar check
AfterDateEmptyFirst(toks, d) ==
    IF Nth(toks, 2).kind \in {"Crlf", "None"} THEN Err("EmptyDay", "")
    ELSE IF d.tag # "Ok" THEN Err("InvalidDay", d.msg)
    ELSE IF Nth(toks, 2).kind = "Error" THEN BadThing("Bad mean temp")
    ELSE IF Nth(toks, 2).kind # "Number" THEN BadThing("Bad mean temp token")
    ELSE IF Nth(toks, 3).kind # "Number" THEN BadThing("Bad high temp")
    ELSE IF Nth(toks, 4).kind # "Number" THEN BadThing("Bad high temp hour")
    ELSE AfterHigh(d.val, toks, TimeAt(d.val, toks, 4, "Bad high temp"))

\* lines 330-363
AfterDate(toks, d) ==
    IF d.tag # "Ok" THEN Err("InvalidDay", d.msg)
    ELSE IF Nth(toks, 2).kind \in {"Crlf", "None"} THEN Err("EmptyDay", "")
    ELSE IF Nth(toks, 2).kind = "Error" THEN BadThing("Bad mean temp")
    ELSE IF Nth(toks, 2).kind # "Number" THEN BadThing("Bad mean temp token")
    ELSE IF Nth(toks, 3).kind # "Number" THEN BadThing("Bad high temp")
    ELSE IF Nth(toks, 4).kind # "Number" THEN BadThing("Bad high temp hour")
    ELSE AfterHigh(d.val, toks, TimeAt(d.val, toks, 4, "Bad high temp"))

\* line 328
AfterDayNumber(date, toks, day_number) ==
    IF day_number.tag # "Ok" THEN Panic
    ELSE AfterDate(toks, ReplaceDay(date, day_number.val))

\* lines 323-326
DayParseTokens(date, toks) ==
    IF Nth(toks, 1).kind # "Number" THEN Err("BadDay", "")
    ELSE AfterDayNumber(date, toks, ParseU8(Nth(toks, 1).slice))

\* Day::parse(date, s)
DayParse(date, s) == DayParseTokens(date, Lexer(s))

----------------------------------------------------------------------------
(* Metadata::parse *)

Months == [January |-> 1, February |-> 2, March |-> 3, April |-> 4,
           May |-> 5, June |-> 6, July |-> 7, August |-> 8, September |-> 9,
           October |-> 10, November |-> 11, December |-> 12]

\* the placeholder station identity of lines 278-286
Placeholder(date) ==
    [date |-> date,
     name |-> "maxou",
     city |-> "LE VIGAN",
     state |-> "FRONCE",
     elevation |-> 245,
     lat |-> <<43, 59, 23>>,
     long |-> <<3, 36, 4>>]

\* lines 271-286
AfterTitleDate(ls, date) ==
    IF date.tag # "Ok" THEN Panic
    ELSE IF Len(ls) < 2 THEN Err("BadHeader", "")
    ELSE IF ls[2] # "" THEN Panic
    ELSE Ok(Placeholder(date.val))

\* line 263
AfterYear(ls, month, year) ==
    IF year.tag # "Ok" THEN Panic
    ELSE AfterTitleDate(ls, FromCalendarDate(year.val, month, 1))

\* lines 232-269
MetadataParseTitle(ls, title) ==
    IF Nth(title, 1).kind # "MonthlyClimatologicalSummary" THEN Err("BadTitle", "")
    ELSE IF Nth(title, 2).kind \notin DOMAIN Months THEN Err("BadMonth", Nth(title, 2).slice)
    ELSE IF Nth(title, 3).kind # "Dot" THEN Err("BadMonth", "Missing dot after month")
    ELSE IF Nth(title, 4).kind # "Number" THEN Err("BadMonth", "Missing year after month")
    ELSE AfterYear(ls, Months[Nth(title, 2).kind], ParseI32(Nth(title, 4).slice))

\* Metadata::parse(lines), ls being the items the iterator still holds; a
\* call that returns Ok has taken two of them
MetadataParse(ls) ==
    IF Len(ls) = 0 THEN Err("MissingTitle", "")
    ELSE MetadataParseTitle(ls, Lexer(ls[1]))

----------------------------------------------------------------------------
(* <Report as FromStr>::from_str *)

\* index of the first "\n" of s at or after i (Len(s) + 1 when none)
RECURSIVE FindNewline(_, _)
FindNewline(s, i) ==
    IF i <= Len(s) /\ CharAt(s, i) # "\n" THEN FindNewline(s, i + 1) ELSE i

\* str::lines from position i: split at "\n", one trailing "\r" of a line
\* dropped, no item after a final "\n"
RECURSIVE LinesFrom(_, _)
LinesFrom(s, i) ==
    IF i > Len(s) THEN << >>
    ELSE LET e == FindNewline(s, i)
             cut == IF e <= Len(s) /\ e > i /\ CharAt(s, e - 1) = "\r" THEN e - 2 ELSE e - 1
         IN  <<SubSeq(s, i, cut)>> \o LinesFrom(s, e + 1)

Lines(s) == LinesFrom(s, 1)

\* line.chars().all(|c| c == '-')
AllDash(line) == RunEnd(line, 1, {"-"}) = Len(line) + 1

\* the test of line 159 that ends the first loop
IsOpeningBar(line) == line # "" /\ AllDash(line)

\* the test of line 169 that ends the second loop
IsClosingBar(line) == AllDash(line)

Finish(res) ==
    /\ outcome' = res
    /\ pc' = "done"

\* line 154: `?` on the result m of Metadata::parse
BeginWith(ls, m) ==
    /\ lines' = ls
    /\ IF m.tag = "Ok"
       THEN /\ metadata' = m.val
            /\ pos' = 2
            /\ pc' = "skip"
            /\ outcome' = outcome
       ELSE /\ Finish(m)
            /\ UNCHANGED <<metadata, pos>>

BeginLines(ls) == BeginWith(ls, MetadataParse(ls))

\* lines 153-154: split the text and parse the header
Begin ==
    /\ pc = "start"
    /\ BeginLines(Lines(text))
    /\ UNCHANGED <<text, days, fed, stderr, callVars, mergeVars>>

\* lines 157-162: one turn of the loop that skips to the big bar
SkipLine ==
    /\ pc = "skip"
    /\ IF pos >= Len(lines)
       THEN /\ Finish(Panic)
            /\ pos' = pos
       ELSE /\ pos' = pos + 1
            /\ pc' = IF IsOpeningBar(lines[pos + 1]) THEN "days" ELSE "skip"
            /\ outcome' = outcome
    /\ UNCHANGED <<text, lines, metadata, days, fed, stderr, callVars, mergeVars>>

\* TakeDay without the EmptyDay arm: every error of Day::parse is returned
TakeDayNoSkip(day) ==
    IF day.tag = "Ok"
    THEN /\ days' = Append(days, day.val)
         /\ stderr' = IF Len(days) > 0 /\ ~DateLess(days[Len(days)].date, day.val.date)
                      THEN Append(stderr, "days are not ordered")
                      ELSE stderr
         /\ UNCHANGED <<pc, outcome>>
    ELSE /\ Finish(day)
         /\ UNCHANGED <<days, stderr>>

\* TakeDay with every error of Day::parse skipped like EmptyDay
TakeDaySkipAll(day) ==
    IF day.tag = "Ok"
    THEN /\ days' = Append(days, day.val)
         /\ stderr' = IF Len(days) > 0 /\ ~DateLess(days[Len(days)].date, day.val.date)
                      THEN Append(stderr, "days are not ordered")
                      ELSE stderr
         /\ UNCHANGED <<pc, outcome>>
    ELSE IF day.tag = "Err"
    THEN UNCHANGED <<days, stderr, pc, outcome>>
    ELSE /\ Finish(day)
         /\ UNCHANGED <<days, stderr>>

\* TakeDay with a day that is not later than the last one left out
TakeDayDropUnordered(day) ==
    IF day.tag = "Ok"
    THEN /\ days' = IF Len(days) > 0 /\ ~DateLess(days[Len(days)].date, day.val.date)
                    THEN days
                    ELSE Append(days, day.val)
         /\ stderr' = IF Len(days) > 0 /\ ~DateLess(days[Len(days)].date, day.val.date)
                      THEN Append(stderr, "days are not ordered")
                      ELSE stderr
         /\ UNCHANGED <<pc, outcome>>
    ELSE IF day.tag = "Err" /\ day.err = "EmptyDay"
    THEN UNCHANGED <<days, stderr, pc, outcome>>
    ELSE /\ Finish(day)
         /\ UNCHANGED <<days, stderr>>

\* lines 173-184: the match on the result of Day::parse, the ordering
\* diagnostic and the push
TakeDay(day) ==
    IF day.tag = "Ok"
    THEN /\ days' = Append(days, day.val)
         /\ stderr' = IF Len(days) > 0 /\ ~DateLess(days[Len(days)].date, day.val.date)
                      THEN Append(stderr, "days are not ordered")
                      ELSE stderr
         /\ UNCHANGED <<pc, outcome>>
    ELSE IF day.tag = "Err" /\ day.err = "EmptyDay"
    THEN UNCHANGED <<days, stderr, pc, outcome>>
    ELSE /\ Finish(day)
         /\ UNCHANGED <<days, stderr>>

\* lines 168-185 for the line just taken from the iterator
DayLineOf(line) ==
    IF IsClosingBar(line)
    THEN /\ Finish(Ok([metadata |-> metadata, days |-> days]))
         /\ UNCHANGED <<days, fed, stderr>>
    ELSE /\ fed' = Append(fed, pos + 1)
         /\ TakeDay(DayParse(metadata.date, line))

\* lines 167-185: one turn of the loop that parses the days
DayLine ==
    /\ pc = "days"
    /\ IF pos >= Len(lines)
       THEN /\ Finish(Panic)
            /\ UNCHANGED <<pos, days, fed, stderr>>
       ELSE /\ pos' = pos + 1
            /\ DayLineOf(lines[pos + 1])
    /\ UNCHANGED <<text, lines, metadata, callVars, mergeVars>>

----------------------------------------------------------------------------
(* The texts from_str is run on: a header, at most MaxDataLines data       *)
(* lines, closing lines, with or without a final newline; and texts whose  *)
(* header is cut short or malformed.                                       *)

Bar == "--------"

TitleJune == "MONTHLY CLIMATOLOGICAL SUMMARY for JUN. 2006"

TitleFebruary == "MONTHLY CLIMATOLOGICAL SUMMARY for FEV. 2006"

Heads ==
    { <<TitleJune, "", Bar>>,
      <<TitleFebruary, "", Bar>> }

\* a header with station lines and an empty line before the separator
StationHead == <<TitleJune, "", " NAME: maxou CITY: LE VIGAN", "", Bar>>

DataLines ==
    { "15 18.3 25.1 14:32 10.2 05:10 0 0 2.4 8.1 12.5 13:00 NW",
      "16 19.0 26.45 15:01 -1.5 04:59 0.0 3.1 0.0 7.9 11.0 --- ---",
      "30 17.2 21.1 12:00 9.9 06:30 1 0 12.7 3.0 20.9 23:59 SSW",
      "20",
      "31",
      "0 ?",
      "abc",
      "17 18.3 x",
      "300",
      "18 18.3 25.1 14:32 10.2 05:10 0 0 2.4 8.1 12.5 13:00 X",
      "" }

\* what follows the data lines, and whether the text ends with a newline
Endings ==
    { << << >>, "" >>,
      << <<Bar>>, "" >>,
      << <<Bar, "Max >= 32.0: 0">>, "\n" >> }

ShortTexts ==
    { << >>,
      <<TitleJune>>,
      <<TitleJune, "">>,
      <<TitleJune, "", "20", "abc">>,
      <<TitleJune, "NAME: maxou", Bar, "20", Bar>>,
      <<"WEEKLY SUMMARY for JUN. 2006", "", Bar, "20", Bar>>,
      <<"MONTHLY CLIMATOLOGICAL SUMMARY for JUNE. 2006", "", Bar, "20", Bar>>,
      <<"MONTHLY CLIMATOLOGICAL SUMMARY for JUN 2006", "", Bar, "20", Bar>>,
      <<"MONTHLY CLIMATOLOGICAL SUMMARY for JUN.", "", Bar, "20", Bar>>,
      <<"MONTHLY CLIMATOLOGICAL SUMMARY for JUN. 2006.5", "", Bar, "20", Bar>>,
      <<"MONTHLY CLIMATOLOGICAL SUMMARY for JUN. 20060", "", Bar, "20", Bar>> }

\* the sequences of at most n items of set
SeqsUpTo(set, n) == UNION {[1..k -> set] : k \in 0..n}

\* the lines joined by "\n"
RECURSIVE Join(_)
Join(ls) ==
    IF Len(ls) = 0 THEN ""
    ELSE IF Len(ls) = 1 THEN ls[1]
    ELSE ls[1] \o "\n" \o Join(Tail(ls))

Texts ==
    {Join(h \o d \o e[1]) \o e[2] :
        h \in Heads, d \in SeqsUpTo(DataLines, MaxDataLines), e \in Endings}
    \cup {Join(StationHead \o <<d>> \o <<Bar>>) \o "\n" : d \in DataLines}
    \cup {Join(t) : t \in ShortTexts}

----------------------------------------------------------------------------
(* Direct calls of the public parsers Day::parse and Metadata::parse       *)

Anchors == {Date(2006, 6, 1), Date(2006, 2, 1), Date(2008, 2, 1)}

DayNumbers ==
    {"", "abc", "---", "?", "JUN", "-1", "1.5", "256", "300", "0", "1", "07",
     "28", "29", "30", "31", "32", "255"}

WindTimes == {" 13:00", " ---"}

LastFields ==
    {" " \o d : d \in Directions}
    \cup {"", " ---", " X", " nw", " NORTH", " JAN", " 5", " ?", " :"}

Measures == " 18.3 25.1 14:32 10.2 05:10 0 0 2.4 8.1 12.5"

Rests ==
    {Measures \o w \o f : w \in WindTimes, f \in LastFields}
    \cup {"", " ", "\n", " x", " ?", " 18.3", " 18.3 25.1 24:00", " 18.3 25.1 14:60",
          " 18.3 25.1 300:00", " 18.3 25.1 14:32 10.2 05:10 0 0 2.4 8.1 12.5 13:00:00 N"}

DayTexts == {n \o r : n \in DayNumbers, r \in Rests}

MonthWords == {"JAN", "FEB", "FEV", "MAR", "APR", "MAY", "JUN", "JUL", "AUG",
               "SEP", "OCT", "NOV", "DEC"}

TitleLines ==
    {"MONTHLY CLIMATOLOGICAL SUMMARY for " \o m \o ". " \o y :
        m \in MonthWords, y \in {"2006", "2024"}}
    \cup {"WEEKLY SUMMARY for JUN. 2006",
          "MONTHLY CLIMATOLOGICAL SUMMARY for JUNE. 2006",
          "MONTHLY CLIMATOLOGICAL SUMMARY for JUN 2006",
          "MONTHLY CLIMATOLOGICAL SUMMARY for JUN.",
          "MONTHLY CLIMATOLOGICAL SUMMARY for JUN. 2006.5",
          "MONTHLY CLIMATOLOGICAL SUMMARY for JUN. 20060"}

AfterTitle ==
    { << >>, <<"">>, <<"", "NAME: maxou">>, <<"NAME: maxou">>, <<" ">>, <<Bar>>,
      <<"NAME: maxou", "">> }

HeaderInputs == {<<t>> \o r : t \in TitleLines, r \in AfterTitle} \cup { << >> }

NoCall == [fn |-> "none"]

\* one call Day::parse(date, s)
DayCall ==
    /\ call = NoCall
    /\ \E date \in Anchors, s \in DayTexts :
          /\ call' = [fn |-> "Day::parse", date |-> date, s |-> s]
          /\ ret' = DayParse(date, s)
    /\ UNCHANGED <<parseVars, mergeVars>>

\* one call Metadata::parse(lines)
MetadataCall ==
    /\ call = NoCall
    /\ \E ls \in HeaderInputs :
          /\ call' = [fn |-> "Metadata::parse", lines |-> ls]
          /\ ret' = MetadataParse(ls)
    /\ UNCHANGED <<parseVars, mergeVars>>

----------------------------------------------------------------------------
(* Report::merge *)

\* MetadataEq as #[derive(PartialEq)] would give it: date compared too
MetadataEqDerived(a, b) ==
    /\ a.date = b.date
    /\ a.name = b.name
    /\ a.city = b.city
    /\ a.state = b.state
    /\ a.elevation = b.elevation
    /\ a.lat = b.lat
    /\ a.long = b.long

\* impl PartialEq for Metadata: every field but date
MetadataEq(a, b) ==
    /\ a.name = b.name
    /\ a.city = b.city
    /\ a.state = b.state
    /\ a.elevation = b.elevation
    /\ a.lat = b.lat
    /\ a.long = b.long

\* Merged without its else branch: the argument's days always go last
MergedAppendOnly(self, other) ==
    [metadata |-> self.metadata, days |-> self.days \o other.days]

\* lines 129-135: the receiver after a merge that passed the metadata test
Merged(self, other) ==
    IF DateLess(self.metadata.date, other.metadata.date)
    THEN [metadata |-> self.metadata, days |-> self.days \o other.days]
    ELSE [metadata |-> [self.metadata EXCEPT !.date = other.metadata.date],
          days |-> other.days \o self.days]

\* self.merge(other)
Merge(other) ==
    /\ calls' = calls + 1
    /\ before' = report
    /\ arg' = other
    /\ IF ~MetadataEq(report.metadata, other.metadata)
       THEN /\ mergeResult' = Err("String", "Metada differs")
            /\ UNCHANGED <<report, history>>
       ELSE /\ report' = Merged(report, other)
            /\ mergeResult' = Ok(<< >>)
            /\ history' = Append(history, other.metadata.date)

\* the reports merge is run on: the station of the header parser or one
\* that differs from it in a single field, a month of MergeDates, and the
\* first n days of that month in order

MergeDates == {Date(2006, 6, 1), Date(2006, 7, 1), Date(2006, 8, 1)}

Stations ==
    { Placeholder(d) : d \in MergeDates }
    \cup { [Placeholder(d) EXCEPT !.name = "chamson"] : d \in MergeDates }
    \cup { [Placeholder(d) EXCEPT !.city = "NIMES"] : d \in MergeDates }
    \cup { [Placeholder(d) EXCEPT !.state = "FRANCE"] : d \in MergeDates }
    \cup { [Placeholder(d) EXCEPT !.elevation = 246] : d \in MergeDates }
    \cup { [Placeholder(d) EXCEPT !.lat = <<43, 59, 24>>] : d \in MergeDates }
    \cup { [Placeholder(d) EXCEPT !.long = <<3, 36, 5>>] : d \in MergeDates }

\* a day as Day::parse builds it from a full line
DayOn(date, n) ==
    [date |-> Date(date.year, date.month, n),
     mean_temp |-> 18300,
     high_temp |-> 25100,
     high_temp_date |-> [date |-> Date(date.year, date.month, n),
                         hour |-> 14, minute |-> 32, second |-> 0],
     low_temp |-> 10200,
     low_temp_date |-> [date |-> Date(date.year, date.month, n),
                        hour |-> 5, minute |-> 10, second |-> 0],
     rain |-> 2400,
     avg_wind_speed |-> 8100,
     high_wind_speed |-> 12500,
     high_wind_speed_date |-> None,
     wind_direction |-> Some("NW")]

Reports ==
    { [metadata |-> m, days |-> [k \in 1..n |-> DayOn(m.date, k)]] :
        m \in Stations, n \in 0..MaxDays }

\* the receivers: the station of the header parser or the one of another city
Receivers == {r \in Reports : r.metadata.name = "maxou" /\ r.metadata.elevation = 245
                              /\ r.metadata.state = "FRONCE"
                              /\ r.metadata.lat = <<43, 59, 23>>
                              /\ r.metadata.long = <<3, 36, 4>>}

\* one call of merge on the receiver
MergeCall ==
    /\ calls < MaxMerges
    /\ \E other \in Reports : Merge(other)
    /\ UNCHANGED <<parseVars, callVars>>

----------------------------------------------------------------------------
(* Specifications *)

NoReport == [metadata |-> None, days |-> << >>]

CallIdle ==
    /\ call = NoCall
    /\ ret = Running

MergeIdle ==
    /\ report = NoReport
    /\ before = NoReport
    /\ arg = NoReport
    /\ mergeResult = Running
    /\ history = << >>
    /\ calls = 0

ParseIdle ==
    /\ text = ""
    /\ lines = << >>
    /\ pos = 0
    /\ pc = "idle"
    /\ metadata = None
    /\ days = << >>
    /\ outcome = Running
    /\ fed = << >>
    /\ stderr = << >>

\* from_str on one text
Init ==
    /\ text \in Texts
    /\ lines = << >>
    /\ pos = 0
    /\ pc = "start"
    /\ metadata = None
    /\ days = << >>
    /\ outcome = Running
    /\ fed = << >>
    /\ stderr = << >>
    /\ CallIdle
    /\ MergeIdle

Next ==
    \/ Begin
    \/ SkipLine
    \/ DayLine

Spec == Init /\ [][Next]_vars

\* the parsers called on their own
InitCall ==
    /\ ParseIdle
    /\ CallIdle
    /\ MergeIdle

NextCall ==
    \/ DayCall
    \/ MetadataCall

SpecCall == InitCall /\ [][NextCall]_vars

\* merge calls on one receiver
InitMerge ==
    /\ ParseIdle
    /\ CallIdle
    /\ report \in Receivers
    /\ before = NoReport
    /\ arg = NoReport
    /\ mergeResult = Running
    /\ history = <<report.metadata.date>>
    /\ calls = 0

NextMerge == MergeCall

SpecMerge == InitMerge /\ [][NextMerge]_vars

----------------------------------------------------------------------------
(* Claims about Report::merge, checked under SpecMerge *)

IdentityFields == {"name", "city", "state", "elevation", "lat", "long"}

SameIdentity(a, b) == \A f \in IdentityFields : a[f] = b[f]

MergeReturned == mergeResult.tag # "Running"

\* non-descending dates
SortedByDate(ds) == \A i \in 1..(Len(ds) - 1) : ~DateLess(ds[i + 1].date, ds[i].date)

PairwiseDistinct(q) == \A i, j \in 1..Len(q) : i # j => q[i] # q[j]

\* the receiver holds the days of the earlier report a, then those of b
ChronologicalMerge(a, b) ==
    /\ mergeResult.tag = "Ok"
    /\ report.days = a.days \o b.days
    /\ report.metadata.date = a.metadata.date

\* C1: when two reports of the same station have different dates, the
\* call succeeds whichever of the two is the receiver, and the receiver ends
\* with the days of the earlier report followed by the days of the later one
\* and with the earlier date.
C1_MergeIsChronological ==
    (/\ MergeReturned
     /\ SameIdentity(before.metadata, arg.metadata)
     /\ before.metadata.date # arg.metadata.date)
    => IF DateLess(before.metadata.date, arg.metadata.date)
       THEN ChronologicalMerge(before, arg)
       ELSE ChronologicalMerge(arg, before)

\* the later report was the receiver, and both reports held days
C1_Witness ==
    /\ mergeResult.tag = "Ok"
    /\ DateLess(arg.metadata.date, before.metadata.date)
    /\ Len(before.days) > 0
    /\ Len(arg.days) > 0

\* C2: merge returns the metadata-differs error exactly when one of name,
\* city, state, elevation, lat, long differs, whatever the dates are, and
\* then the receiver is what it was before the call.
C2_MergeErrorIffIdentityDiffers ==
    MergeReturned =>
        /\ (mergeResult.tag = "Err") <=> ~SameIdentity(before.metadata, arg.metadata)
        /\ mergeResult.tag = "Err" =>
              /\ mergeResult.msg = "Metada differs"
              /\ report.metadata.date = before.metadata.date
              /\ report.days = before.days
        /\ mergeResult.tag \in {"Ok", "Err"}

\* an error between reports of different months, the receiver holding days
C2_Witness ==
    /\ mergeResult.tag = "Err"
    /\ before.metadata.date # arg.metadata.date
    /\ Len(before.days) > 0
    /\ Len(arg.days) > 0

\* C3: after successful merges of internally sorted reports of pairwise
\* different months, in whatever order they were merged, the receiver's days
\* are sorted by date.
C3_DaysStaySorted == PairwiseDistinct(history) => SortedByDate(report.days)

\* C9: merge returns an error when both reports have the same
\* metadata.date.
C9_SameDateIsAnError ==
    (MergeReturned /\ before.metadata.date = arg.metadata.date)
    => mergeResult.tag = "Err"

----------------------------------------------------------------------------
(* Claims about from_str, checked under Spec *)

\* index of the first line at or after i that passes the opening test
RECURSIVE FirstBar(_, _)
FirstBar(ls, i) ==
    IF i <= Len(ls) /\ ~IsOpeningBar(ls[i]) THEN FirstBar(ls, i + 1) ELSE i

Accepted(r) == r.tag = "Ok"

IsEmptyDay(r) == r.tag = "Err" /\ r.err = "EmptyDay"

IsDayError(r) == r.tag = "Err" /\ r.err \in {"BadDay", "InvalidDay", "BadThing"}

\* the days of the lines i..j that Day::parse accepts, in line order
RECURSIVE AcceptedDays(_, _, _, _)
KeepAccepted(r, rest) == IF Accepted(r) THEN <<r.val>> \o rest ELSE rest

AcceptedDays(date, ls, i, j) ==
    IF i > j THEN << >>
    ELSE KeepAccepted(DayParse(date, ls[i]), AcceptedDays(date, ls, i + 1, j))

AcceptedOrEmpty(r) == Accepted(r) \/ IsEmptyDay(r)

\* the data lines of a text whose parse returned a report are first..last
ReportMatchesDataLines(first, last) ==
    /\ fed = [k \in 1..(last - first + 1) |-> first + k - 1]
    /\ outcome.val.days = AcceptedDays(metadata.date, lines, first, last)
    /\ \A k \in first..last : AcceptedOrEmpty(DayParse(metadata.date, lines[k]))

\* C4: when from_str returns a report, its days are the days of the data
\* lines that Day::parse accepted, one each and in order, every other data
\* line having given EmptyDay; and from_str never returns EmptyDay.
C4_EmptyDaysAreSkipped ==
    /\ outcome.tag = "Ok" => ReportMatchesDataLines(FirstBar(lines, 3) + 1, pos - 1)
    /\ ~IsEmptyDay(outcome)

\* a report returned from an accepted line and an EmptyDay line
C4_Witness ==
    /\ outcome.tag = "Ok"
    /\ Len(outcome.val.days) > 0
    /\ Len(fed) > Len(outcome.val.days)
    /\ \E k \in 1..Len(fed) : lines[fed[k]] = "20"

LastFed == lines[fed[Len(fed)]]

\* the line starts with a day number that fits a u8 and is no day of the
\* month of date
AbsentDay(date, t) ==
    /\ t.kind = "Number"
    /\ AllDigits(t.slice)
    /\ DigitsVal(t.slice, 1, Len(t.slice), 0) \in (0..255) \ (1..DaysInMonth(date.year, date.month))

StartsWithAbsentDay(date, line) == AbsentDay(date, Nth(Lexer(line), 1))

StoppedWith(r) ==
    /\ outcome = r
    /\ pc = "done"
    /\ pos = fed[Len(fed)]
    /\ outcome.tag # "Ok"

StopsOnDayError(r) == IsDayError(r) => StoppedWith(r)

\* C6: when Day::parse returns an error other than EmptyDay for a data
\* line, from_str ends at that line with that same error: no report is
\* returned and no later line is read.
C6_DayErrorAborts ==
    /\ Len(fed) > 0 => StopsOnDayError(DayParse(metadata.date, LastFed))
    /\ IsDayError(outcome) => Len(fed) > 0 /\ pos = fed[Len(fed)]

\* an error after a day was accepted, with lines left in the text
C6_Witness ==
    /\ outcome.tag = "Err"
    /\ outcome.err = "BadThing"
    /\ Len(days) > 0
    /\ pos < Len(lines)

\* every line handed to Day::parse so far was accepted or gave EmptyDay
FedLinesParsed ==
    \A k \in 1..Len(fed) : AcceptedOrEmpty(DayParse(metadata.date, lines[fed[k]]))

\* C7: from_str ends with a report or an error for every text, and never
\* by a panic.  It is stated for the texts whose header Metadata::parse
\* accepts and whose data lines Day::parse accepts or skips, those that
\* reach the two loops that look for the separators.
C7_NeverPanics ==
    (pc = "done" /\ metadata # None /\ FedLinesParsed) => outcome.tag \in {"Ok", "Err"}

\* the lines handed to Day::parse are the ones that follow the opening bar
FedFollowsOpeningBar ==
    \A k \in 1..Len(fed) : fed[k] = FirstBar(lines, 3) + k

\* C11: after the opening bar every line is handed to Day::parse until the
\* first line that passes the test of the opening bar (not empty, only '-');
\* that line ends the data section and is not parsed, and an empty line
\* among the data lines does not end the data section.
C11_ClosingBarIsNotEmpty ==
    /\ FedFollowsOpeningBar
    /\ \A k \in 1..Len(fed) : ~IsOpeningBar(lines[fed[k]])
    /\ outcome.tag = "Ok" => IsOpeningBar(lines[pos])

AppendAccepted(ds, r) == IF Accepted(r) THEN Append(ds, r.val) ELSE ds

\* the days Day::parse accepts among the first n lines handed to it, in the
\* order of the lines
RECURSIVE DaysOfFed(_)
DaysOfFed(n) ==
    IF n = 0 THEN << >>
    ELSE AppendAccepted(DaysOfFed(n - 1), DayParse(metadata.date, lines[fed[n]]))

\* the places of ds where the next day is not strictly later
Unordered(ds) == {i \in 1..(Len(ds) - 1) : ~DateLess(ds[i].date, ds[i + 1].date)}

\* C13: the days of from_str are the accepted days in the order of their
\* lines, whatever their dates: a day that is not strictly later than the
\* day accepted before it is appended at the end like any other, costs one
\* diagnostic line and nothing else, and an error of from_str is always the
\* error Day::parse gave for the last line, never one about the order.
C13_UnorderedDaysAreKept ==
    metadata # None =>
        /\ days = DaysOfFed(Len(fed))
        /\ stderr = [k \in 1..Cardinality(Unordered(days)) |-> "days are not ordered"]
        /\ outcome.tag = "Ok" => outcome.val.days = days
        /\ outcome.tag = "Err" => Len(fed) > 0 /\ outcome = DayParse(metadata.date, LastFed)

\* a report whose second day is earlier than its first
C13_Witness ==
    /\ outcome.tag = "Ok"
    /\ Len(outcome.val.days) = 2
    /\ DateLess(outcome.val.days[2].date, outcome.val.days[1].date)
    /\ Len(stderr) = 1

----------------------------------------------------------------------------
(* Claims about Metadata::parse and Day::parse, checked under SpecCall *)

\* the title has the literal, a month, a dot and a year of at most four digits
GoodTitleTokens(t) ==
    /\ Nth(t, 1).kind = "MonthlyClimatologicalSummary"
    /\ Nth(t, 2).kind \in DOMAIN Months
    /\ Nth(t, 3).kind = "Dot"
    /\ Nth(t, 4).kind = "Number"
    /\ AllDigits(Nth(t, 4).slice)
    /\ Len(Nth(t, 4).slice) <= 4

WellFormedTitle(ls) == Len(ls) >= 1 /\ GoodTitleTokens(Lexer(ls[1]))

\* C8: after a well-formed title line, Metadata::parse returns BadHeader
\* when there is no second line and when the second line is not empty, and
\* returns a Metadata only when the second line is there and empty.
C8_SecondLineMustBeEmpty ==
    (call.fn = "Metadata::parse" /\ WellFormedTitle(call.lines))
    => /\ Len(call.lines) < 2 => ret = Err("BadHeader", "")
       /\ (Len(call.lines) >= 2 /\ call.lines[2] # "") => ret = Err("BadHeader", "")
       /\ ret.tag = "Ok" => (Len(call.lines) >= 2 /\ call.lines[2] = "")

\* day numbers that exist in every anchor month
PresentDays == {"1", "07", "28"}

\* the line is a present day, the measures, a wind time and the last field f
EndsWith(f) ==
    /\ call.fn = "Day::parse"
    /\ \E n \in PresentDays, w \in WindTimes : call.s = n \o Measures \o w \o f

\* C10: in the last field of a day line the missing-data marker gives
\* wind_direction = None, the name of a compass point gives that direction,
\* and anything else, or nothing, makes Day::parse return BadThing.
C10_LastFieldIsDirectionOrBadThing ==
    \A f \in LastFields :
        EndsWith(f) =>
            IF f = " ---" THEN ret.tag = "Ok" /\ ret.val.wind_direction = None
            ELSE IF \E d \in Directions : f = " " \o d
            THEN ret.tag = "Ok" /\ ret.val.wind_direction = Some(SubSeq(f, 2, Len(f)))
            ELSE ret.tag = "Err" /\ ret.err = "BadThing"

\* the token is a number written with digits only whose value fits a u8
SmallNumber(t) ==
    /\ t.kind = "Number"
    /\ AllDigits(t.slice)
    /\ DigitsVal(t.slice, 1, Len(t.slice), 0) \in 0..255

\* the line starts with no token, or with a token that is no day of a month
NoDayOfMonth(s) == ~SmallNumber(Nth(Lexer(s), 1))

\* C12: Day::parse returns BadDay for every line that starts with no token,
\* with a token that is no number, or with a number that is negative, has a
\* decimal fraction or is above 255; it does not panic on such a line.
C12_UnusableDayNumberIsBadDay ==
    (call.fn = "Day::parse" /\ NoDayOfMonth(call.s)) => ret = Err("BadDay", "")

=============================================================================
